---- MODULE Spec2Model ----
\* The in-memory item registry of server-crud.js: the module-level array
\* `items` and the five route handlers that read and change it.
EXTENDS Integers, Sequences

\* items: the array `items` of the module. created and everDeleted are history
\* variables, changed only in SpecHistory: the ids the successful creates
\* returned since the last successful delete (in order), and the ids of the
\* items deleted so far.
VARIABLES items, created, everDeleted

vars == <<items, created, everDeleted>>

\* ---------------------------------------------------------------- bounds

\* Largest id a create may assign in the model.
MaxId == 4

\* ------------------------------------------------------------ JS values

\* A decoded JSON value of a request body field, or a field of an item:
\* its typeof-like kind and its text.
Undefined == [k |-> "undefined", s |-> ""]
Null == [k |-> "null", s |-> ""]
Str(s) == [k |-> "string", s |-> s]
Num0 == [k |-> "number", s |-> "0"]

\* The values the name and description of an update body are drawn from
\* ("absent" is Undefined), and those of a create body.
UpdateVals == {Undefined, Null, Str(""), Str("A")}
CreateVals == UpdateVals \cup {Num0}

\* ToBoolean: what `!v` and `v || w` test.
Truthy(v) ==
  CASE v.k = "undefined" -> FALSE
    [] v.k = "null" -> FALSE
    [] v.k = "string" -> v.s # ""
    [] v.k = "number" -> v.s \notin {"0", "NaN"}
    [] OTHER -> TRUE

\* a || b
Or(a, b) == IF Truthy(a) THEN a ELSE b

\* A plausible slip: `||` written where `??` is meant.
CoalesceAsOr(a, b) == Or(a, b)

\* a ?? b
Coalesce(a, b) == IF a.k \in {"undefined", "null"} THEN b ELSE a

\* ------------------------------------------------------------- parseInt

DecChars == <<"0", "1", "2", "3", "4", "5", "6", "7", "8", "9">>
LowChars == DecChars \o <<"a", "b", "c", "d", "e", "f">>
UpChars == DecChars \o <<"A", "B", "C", "D", "E", "F">>

\* The value of character c as a digit, or 99 when it is none.
DigitVal(c) ==
  IF \E i \in 1..Len(LowChars) : LowChars[i] = c
    THEN (CHOOSE i \in 1..Len(LowChars) : LowChars[i] = c) - 1
  ELSE IF \E i \in 1..Len(UpChars) : UpChars[i] = c
    THEN (CHOOSE i \in 1..Len(UpChars) : UpChars[i] = c) - 1
  ELSE 99

NaN == [nan |-> TRUE, n |-> 0]
Number(n) == [nan |-> FALSE, n |-> n]

RECURSIVE SkipWs(_)
SkipWs(s) == IF s # <<>> /\ Head(s) \in {" ", "\t", "\n"} THEN SkipWs(Tail(s)) ELSE s

\* The longest prefix of digits of the radix, as a number; NaN when empty.
RECURSIVE ParseDigits(_, _, _, _)
ParseDigits(s, radix, acc, seen) ==
  IF s # <<>> /\ DigitVal(Head(s)) < radix
    THEN ParseDigits(Tail(s), radix, acc * radix + DigitVal(Head(s)), TRUE)
    ELSE IF seen THEN Number(acc) ELSE NaN

ParseUnsigned(s) ==
  IF Len(s) >= 2 /\ s[1] = "0" /\ s[2] \in {"x", "X"}
    THEN ParseDigits(Tail(Tail(s)), 16, 0, FALSE)
    ELSE ParseDigits(s, 10, 0, FALSE)

Negate(p) == IF p.nan THEN p ELSE Number(0 - p.n)

\* parseInt(string) with no radix argument.
ParseInt(str) ==
  LET s == SkipWs(str) IN
    IF s # <<>> /\ Head(s) = "-" THEN Negate(ParseUnsigned(Tail(s)))
    ELSE IF s # <<>> /\ Head(s) = "+" THEN ParseUnsigned(Tail(s))
    ELSE ParseUnsigned(s)

\* i.id === n, for an integer id and a parseInt result.
StrictEq(id, p) == ~p.nan /\ p.n = id

\* The decimal text of a small natural number.
Dec(i) == <<DecChars[i + 1]>>

\* The :id path parameters requests are drawn from.
Params ==
  {Dec(i) : i \in 1..MaxId}
    \cup {<<"x">>, <<"2", "x">>, <<"0", "x", "1">>}

\* ---------------------------------------------------------------- items

Item(id, name, description) == [id |-> id, name |-> name, description |-> description]

SeedItems ==
  << Item(1, Str("Item 1"), Str("First item")),
     Item(2, Str("Item 2"), Str("Second item")) >>

\* A plausible slip: matching the position instead of the id.
FindIndexByPosition(its, p) ==
  IF \E i \in 1..Len(its) : StrictEq(i, p)
    THEN CHOOSE i \in 1..Len(its) : StrictEq(i, p)
    ELSE 0

\* items.findIndex((i) => i.id === p): the first match, 1-based; 0 for -1.
FindIndex(its, p) ==
  IF \E i \in 1..Len(its) : StrictEq(its[i].id, p)
    THEN CHOOSE i \in 1..Len(its) :
           /\ StrictEq(its[i].id, p)
           /\ \A j \in 1..(i - 1) : ~StrictEq(its[j].id, p)
    ELSE 0

\* A plausible slip: numbering by the length of the array.
NextIdByLength(its) == Len(its) + 1

\* A plausible slip: numbering from the first element, items[0].
NextIdFromFirst(its) == IF Len(its) # 0 THEN its[1].id + 1 ELSE 1

\* items.length ? items[items.length - 1].id + 1 : 1
NextId(its) == IF Len(its) # 0 THEN its[Len(its)].id + 1 ELSE 1

\* A plausible slip: creation that only rejects an absent name.
NewItemAllowedIfPresent(name) == name.k # "undefined"

\* The negation of the guard `!name` of create.
NewItemAllowed(name) == Truthy(name)

\* A plausible slip: the description stored as given, with no default.
NewDescriptionAsGiven(description) == description

\* description || ""
NewDescription(description) == Or(description, Str(""))

\* A plausible slip: splice(itemIndex) with the count left out.
RemainingAfterSpliceToEnd(its, i) == SubSeq(its, 1, i - 1)

\* The array after items.splice(i, 1).
RemainingAfterSplice(its, i) == SubSeq(its, 1, i - 1) \o SubSeq(its, i + 1, Len(its))

\* What items.splice(i, 1) returns: the array of the removed elements.
Spliced(its, i) == SubSeq(its, i, i)

\* { ...item, name: name ?? item.name, description: description ?? item.description }
Updated(it, name, description) ==
  [it EXCEPT !.name = Coalesce(name, it.name),
             !.description = Coalesce(description, it.description)]

\* ------------------------------------------------------------ responses

\* A JSON payload: nothing, one item object, or an array of items.
None == [k |-> "none", elems |-> <<>>]
Obj(it) == [k |-> "object", elems |-> <<it>>]
Arr(its) == [k |-> "array", elems |-> its]

\* A response: the status, the `error` and `message` fields ("" when not
\* there) and the item payload (the body itself, or its deletedItem field).
Response(status, error, message, data) ==
  [status |-> status, error |-> error, message |-> message, data |-> data]

\* What a handler leaves behind: the array and the response it sent.
Outcome(its, response) == [items |-> its, res |-> response]

\* ------------------------------------------------------------- handlers

\* GET /items
GetItems(its) == Response(200, "", "", Arr(its))

\* GET /items/:id
GetItem(its, param) ==
  LET i == FindIndex(its, ParseInt(param)) IN
    IF i = 0 THEN Response(404, "Item not found", "", None)
    ELSE Response(200, "", "", Obj(its[i]))

\* POST /items
PostItems(its, name, description) ==
  IF ~NewItemAllowed(name)
    THEN Outcome(its, Response(400, "Name is required", "", None))
    ELSE LET newItem == Item(NextId(its), name, NewDescription(description)) IN
         Outcome(Append(its, newItem), Response(201, "", "", Obj(newItem)))

\* PUT /items/:id
PutItem(its, param, name, description) ==
  LET itemIndex == FindIndex(its, ParseInt(param)) IN
    IF itemIndex = 0
      THEN Outcome(its, Response(404, "Item not found", "", None))
      ELSE LET newItem == Updated(its[itemIndex], name, description) IN
           Outcome([its EXCEPT ![itemIndex] = newItem], Response(200, "", "", Obj(newItem)))

\* DELETE /items/:id
DeleteItem(its, param) ==
  LET itemIndex == FindIndex(its, ParseInt(param)) IN
    IF itemIndex = 0
      THEN Outcome(its, Response(404, "Item not found", "", None))
      ELSE Outcome(RemainingAfterSplice(its, itemIndex),
                   Response(200, "", "Item deleted", Arr(Spliced(its, itemIndex))))

\* ---------------------------------------------------------------- state

IdSeq(its) == [i \in 1..Len(its) |-> its[i].id]
IdSet(its) == {its[i].id : i \in 1..Len(its)}

Init ==
  /\ items = SeedItems
  /\ created = <<>>
  /\ everDeleted = {}

\* The handlers as steps on the array.
ListAllStep ==
  /\ GetItems(items).status = 200
  /\ items' = items

GetByIdStep ==
  \E param \in Params :
    /\ GetItem(items, param).status \in {200, 404}
    /\ items' = items

\* A create is taken only while the id it assigns is within MaxId.
CreateStep ==
  \E name \in CreateVals, description \in CreateVals :
    /\ items' = PostItems(items, name, description).items
    /\ \A id \in IdSet(items') : id <= MaxId

UpdateStep ==
  \E param \in Params, name \in UpdateVals, description \in UpdateVals :
    items' = PutItem(items, param, name, description).items

DeleteStep ==
  \E param \in Params :
    items' = DeleteItem(items, param).items

\* The registry under every request, no history kept.
ListAll == ListAllStep /\ UNCHANGED <<created, everDeleted>>
GetById == GetByIdStep /\ UNCHANGED <<created, everDeleted>>
Create == CreateStep /\ UNCHANGED <<created, everDeleted>>
Update == UpdateStep /\ UNCHANGED <<created, everDeleted>>
Delete == DeleteStep /\ UNCHANGED <<created, everDeleted>>

Next == ListAll \/ GetById \/ Create \/ Update \/ Delete

Spec == Init /\ [][Next]_vars

\* The creates and deletes, with their history recorded.
CreateLogged ==
  /\ CreateStep
  /\ created' = IF Len(items') > Len(items)
                  THEN Append(created, items'[Len(items')].id)
                  ELSE created
  /\ UNCHANGED everDeleted

DeleteLogged ==
  /\ DeleteStep
  /\ created' = IF Len(items') < Len(items) THEN <<>> ELSE created
  /\ everDeleted' = everDeleted \cup (IdSet(items) \ IdSet(items'))

NextHistory == CreateLogged \/ DeleteLogged

SpecHistory == Init /\ [][NextHistory]_vars

\* ======================================================================
\* Claims
\* ======================================================================

\* "Empty or absent" and "supplied", as the claims use the words.
EmptyOrAbsent == {Undefined, Null, Str("")}
Supplied(v) == v # Undefined /\ v # Null
NonEmptyText(v) == v.k = "string" /\ v.s # ""
TextOrAbsent(v) == v.k \in {"string", "undefined", "null"}
HasId(its, p) == \E i \in 1..Len(its) : ~p.nan /\ its[i].id = p.n
NotFound == Response(404, "Item not found", "", None)

\* C1: in every reachable state no two items of the registry have the same id.
C1_UniqueIds ==
  \A i, j \in 1..Len(items) : i # j => items[i].id # items[j].id

\* The registry holds the seeded item 1 and an item 2 created after the
\* seeded item 2 was deleted.
C1_Witness ==
  /\ Len(items) = 2
  /\ items[1] = SeedItems[1]
  /\ items[2].id = 2 /\ items[2].name = Str("A")

\* C2: no successful create returns an id that an item deleted earlier held.
C2_NeverReused ==
  \A name \in CreateVals, description \in CreateVals :
    LET r == PostItems(items, name, description) IN
      r.res.status = 201 => r.res.data.elems[1].id \notin everDeleted

\* C3: create with an empty or absent name answers 400 "Name is required"
\* and leaves the registry as it was.
C3_EmptyNameRejected ==
  \A name \in EmptyOrAbsent, description \in CreateVals :
    LET r == PostItems(items, name, description) IN
      /\ r.res = Response(400, "Name is required", "", None)
      /\ r.items = items

\* A registry other than the seeded one, where such a create is refused.
C3_Witness ==
  /\ Len(items) = 3
  /\ items[2].name = Str("")
  /\ \E name \in EmptyOrAbsent : PostItems(items, name, Str("A")).res.status = 400

\* C4: getById, update and delete with an id no item has answer 404
\* "Item not found" and leave the registry as it was.
C4_MissingIdNotFound ==
  \A param \in Params :
    ~HasId(items, ParseInt(param)) =>
      /\ GetItem(items, param) = NotFound
      /\ DeleteItem(items, param) = Outcome(items, NotFound)
      /\ \A name \in UpdateVals, description \in UpdateVals :
           PutItem(items, param, name, description) = Outcome(items, NotFound)

\* Item 1 was deleted, another item sits at position 1, and id 1 is asked for.
C4_Witness ==
  /\ Len(items) >= 1
  /\ items[1].id = 2
  /\ ~HasId(items, ParseInt(Dec(1)))
  /\ DeleteItem(items, Dec(1)).res.status = 404

\* C5: delete of an existing id answers with deletedItem being the removed
\* item itself, as it was before the deletion, and a getById of that id on
\* the registry it leaves answers NotFound.
C5_DeletedItemIsTheItem ==
  \A param \in Params :
    LET i == FindIndex(items, ParseInt(param)) IN
      i # 0 =>
        LET r == DeleteItem(items, param) IN
          /\ r.res.status = 200
          /\ r.res.message = "Item deleted"
          /\ r.res.data = Obj(items[i])
          /\ GetItem(r.items, param) = NotFound

\* C6: update of an existing id replaces exactly the supplied fields; the id,
\* the position and every other item stay as they were.
C6_UpdateOnlySupplied ==
  \A param \in Params, name \in UpdateVals, description \in UpdateVals :
    LET i == FindIndex(items, ParseInt(param)) IN
      i # 0 =>
        LET r == PutItem(items, param, name, description) IN
          /\ Len(r.items) = Len(items)
          /\ r.items[i].id = items[i].id
          /\ r.items[i].name = IF Supplied(name) THEN name ELSE items[i].name
          /\ r.items[i].description =
               IF Supplied(description) THEN description ELSE items[i].description
          /\ \A j \in 1..Len(items) : j # i => r.items[j] = items[j]
          /\ r.res = Response(200, "", "", Obj(r.items[i]))

\* Item 2 after an update that supplied only a description.
C6_Witness ==
  /\ Len(items) >= 2
  /\ items[2] = Item(2, Str("Item 2"), Str("A"))

\* C7: create with a non-empty name appends one item and returns it: id the
\* last item's id plus 1 (1 on an empty registry), the name given, the
\* description given or "" when absent; the earlier items stay as they were.
C7_CreateAppends ==
  \A name \in CreateVals, description \in CreateVals :
    (NonEmptyText(name) /\ TextOrAbsent(description)) =>
      LET r == PostItems(items, name, description)
          expected ==
            Item(IF Len(items) = 0 THEN 1 ELSE items[Len(items)].id + 1,
                 name,
                 IF Supplied(description) THEN description ELSE Str(""))
      IN
        /\ r.items = Append(items, expected)
        /\ r.res = Response(201, "", "", Obj(expected))

\* The registry emptied and one item created in it without a description.
C7_Witness ==
  items = <<Item(1, Str("A"), Str(""))>>

\* C8: in every reachable state every item has a non-empty name.
C8_NamesNonEmpty ==
  \A i \in 1..Len(items) : NonEmptyText(items[i].name)

\* C9: with no delete made, the registry is the seeded items followed by the
\* created ones in creation order, and its ids are pairwise distinct and
\* non-decreasing.
C9_CreatedIdsIncrease ==
  everDeleted = {} =>
    LET ids == IdSeq(SeedItems) \o created IN
      /\ IdSeq(items) = ids
      /\ \A i, j \in 1..Len(ids) : i # j => ids[i] # ids[j]
      /\ \A i, j \in 1..Len(ids) : i < j => ids[i] <= ids[j]

\* Two creates made from the seeded registry, no delete.
C9_Witness ==
  /\ everDeleted = {}
  /\ Len(created) >= 2

\* C10: delete of an existing id shortens the sequence by one and leaves every
\* other item as it was, in the same relative order.
C10_DeleteRemovesOne ==
  \A param \in Params :
    LET i == FindIndex(items, ParseInt(param)) IN
      i # 0 =>
        LET r == DeleteItem(items, param) IN
          /\ Len(r.items) = Len(items) - 1
          /\ \A j \in 1..(i - 1) : r.items[j] = items[j]
          /\ \A j \in i..(Len(items) - 1) : r.items[j] = items[j + 1]

\* Item 2 deleted from between items 1 and 3.
C10_Witness ==
  /\ Len(items) = 2
  /\ items[1].id = 1
  /\ items[2].id = 3

====
